---- MODULE Spec2Model ----
(***************************************************************************)
(* SupplyItem chaincode (vsagineedu/learn-chaincode).                      *)
(*                                                                         *)
(* Two deployable variants of the same chaincode are modelled:             *)
(*   "ownership" : src/bluechainlatest/chaincode_bluechainlatest.go        *)
(*                 (11 create arguments, OwnerID, get_supplyItems query)   *)
(*   "base"      : src/unnamed/part_000                                    *)
(*                 (10 create arguments, no OwnerID, read query)           *)
(*                                                                         *)
(* The ledger is the world state behind shim.ChaincodeStubInterface, with  *)
(* the contract the chaincode is written against: GetState(key) returns    *)
(* the stored bytes, or nil bytes and a nil error when nothing is stored   *)
(* at key (create_supplyItem tests record != nil); PutState(key, bytes)    *)
(* stores the bytes at once and durably, or reports a failure and stores   *)
(* nothing.  A write is visible to the reads that follow it in the same    *)
(* invocation, and it stays when the invocation returns an error.          *)
(* GetState itself is not taken to fail.  Every invocation runs to         *)
(* completion before the next one starts (the host serializes them).       *)
(*                                                                         *)
(* Stored bytes are JSON documents.  They are represented by the decoded   *)
(* document: kind "item" is the object json.Marshal writes for a           *)
(* SupplyItem (member names are the struct tags), kind "index" is the      *)
(* object json.Marshal writes for a SupplyItemIDs_Holder, kind "nil" is    *)
(* the nil byte slice GetState returns for an absent key.                  *)
(***************************************************************************)
EXTENDS Naturals, Sequences, FiniteSets, TLC

VARIABLES
    variant,    \* which of the two chaincodes is deployed
    ledger,     \* world state: key -> stored bytes
    created,    \* history: args[0] of every create_supplyItem that returned a nil error
    hist,       \* history: shape of the invocation sequence so far
    createdSeq, \* history: args[0] of the creates that returned a nil error, in order
    host,       \* how the host schedules the ledger calls of two invocations
    pc,         \* per invocation in flight: the ledger call it makes next
    argsOf,     \* per invocation in flight: its args
    held,       \* per invocation in flight: supplyItemIDsHolder.SupplyItemIDs as read
    ret,        \* per invocation in flight: the error it returned
    calls       \* history, per invocation in flight: the ledger calls it has issued

\* the variables of the invocations in flight; the atomic handlers of Spec
\* leave them alone
flight == <<host, pc, argsOf, held, ret, calls>>

vars == <<variant, ledger, created, hist, createdSeq, host, pc, argsOf, held, ret, calls>>

-----------------------------------------------------------------------------
(* Bounds and input domains.                                               *)

NumOwners == 2

PlainIds == {"S1", "S2"}

ReservedKey == "supplyItemIDs"

\* identifiers offered as args[0]: the empty string, ordinary identifiers and
\* the key the index is stored at
IdArgs == {""} \cup PlainIds \cup {ReservedKey}

Owners == {"own" \o ToString(i) : i \in 1..NumOwners}

NewValues == {"op2"}

Callers == Owners \cup NewValues

\* description arguments: an ordinary one and one holding a double quote
Descriptions == {"desc", "5\" pipe"}

Variants == {"ownership", "base"}

Keys == IdArgs

NoErr == "<nil>"

\* the run-time panic of indexing args past its length; the invocation ends
\* abnormally, without a returned error
PanicIndex == "panic: runtime error: index out of range"

-----------------------------------------------------------------------------
(* Data types.                                                             *)

\* the SupplyItem struct; fields are named by their json tags.  The base
\* variant has no OwnerID field: there ownerID is always "".
SupplyItem(id, sup, op, own, lon, lat, desc, mt, mq, uom, photo) ==
    [supplierID |-> sup, operatorID |-> op, longitude |-> lon, latitude |-> lat,
     description |-> desc, materialType |-> mt, materialQuantity |-> mq,
     unitOfMeasure |-> uom, photo |-> photo, supplyItemID |-> id, ownerID |-> own]

\* var sItem SupplyItem : the zero value
ZeroItem == SupplyItem("", "", "", "", "", "", "", "", "", "", "")

\* the struct tags of SupplyItem, in declaration order
Tags(v) ==
    <<"supplierID", "operatorID", "longitude", "latitude", "description",
      "materialType", "materialQuantity", "unitOfMeasure", "photo", "supplyItemID">>
    \o (IF v = "ownership" THEN <<"ownerID">> ELSE <<>>)

NilBytes == [kind |-> "nil"]

\* json.Marshal(sItem)
MarshalItem(sItem) == [kind |-> "item", item |-> sItem]

\* json.Marshal(holder); a nil slice is written as null and read back as nil,
\* which is the empty sequence here
MarshalHolder(ids) == [kind |-> "index", ids |-> ids]

-----------------------------------------------------------------------------
(* encoding/json as the chaincode uses it.                                 *)

\* A JSON object text: valid says whether it parses; names and values are
\* its members' names and values in textual order.
Document(valid, names, values) == [valid |-> valid, names |-> names, values |-> values]

\* strings.ToLower of every member name and struct tag that occurs; json
\* matches a member to a struct field by tag, ignoring case
Fold(name) ==
    CASE name \in {"SupplyItemID", "supplyItemID"}   -> "supplyitemid"
      [] name \in {"SupplierID", "supplierID"}       -> "supplierid"
      [] name \in {"OperatorID", "operatorID"}       -> "operatorid"
      [] name \in {"OwnerID", "ownerID"}             -> "ownerid"
      [] name \in {"Longitude", "longitude"}         -> "longitude"
      [] name \in {"Latitude", "latitude"}           -> "latitude"
      [] name \in {"Description", "description"}     -> "description"
      [] name \in {"MaterialType", "materialType"}   -> "materialtype"
      [] name = "MaterialQty"                        -> "materialqty"
      [] name = "materialQuantity"                   -> "materialquantity"
      [] name \in {"UnitOfMeasure", "unitOfMeasure"} -> "unitofmeasure"
      [] name \in {"Photo", "photo"}                 -> "photo"
      [] name = "supplyitemids"                      -> "supplyitemids"

\* the member names create_supplyItem writes, in the order it concatenates them
CreateNames(v) ==
    <<"SupplyItemID", "SupplierID", "OperatorID">>
    \o (IF v = "ownership" THEN <<"OwnerID">> ELSE <<>>)
    \o <<"Longitude", "Latitude", "Description", "MaterialType", "MaterialQty",
         "UnitOfMeasure", "Photo">>

\* the member names of a marshalled SupplyItemIDs_Holder
HolderNames == <<"supplyitemids">>

\* the position of the member json assigns to the field tagged tag: the last
\* member whose name matches, 0 when none does
Match(names, tag) ==
    LET hits == {i \in 1..Len(names) : Fold(names[i]) = Fold(tag)}
    IN  IF hits = {} THEN 0 ELSE CHOOSE i \in hits : \A j \in hits : j <= i

\* Match, tabulated for the member lists and tags that occur
MatchTable ==
    [names \in {CreateNames(v) : v \in Variants} \cup {Tags(v) : v \in Variants}
                \cup {HolderNames} |->
        [tag \in DOMAIN ZeroItem \cup {"supplyitemids"} |-> Match(names, tag)]]

\* a string that can be put between two double quotes without escaping
JSONSafe(s) == s \notin {"5\" pipe"}

\* the text stored in the ledger, as a JSON document
Parse(v, bytes) ==
    CASE bytes.kind = "nil"   -> Document(FALSE, <<>>, <<>>)
      [] bytes.kind = "item"  ->
            Document(TRUE, Tags(v), [i \in 1..Len(Tags(v)) |-> bytes.item[Tags(v)[i]]])
      [] bytes.kind = "index" -> Document(TRUE, HolderNames, <<bytes.ids>>)

\* the value json gives the struct field tagged tag, the zero value when no
\* member matches
FieldValue(doc, tag, zero) ==
    LET i == MatchTable[doc.names][tag]
    IN  IF i = 0 THEN zero ELSE doc.values[i]

\* json.Unmarshal(text, &sItem) on a zero sItem: an invalid text is an error
\* and leaves sItem untouched
UnmarshalItem(v, doc) ==
    IF ~doc.valid
    THEN [err |-> TRUE, sItem |-> ZeroItem]
    ELSE [err |-> FALSE,
          sItem |-> [f \in DOMAIN ZeroItem |->
                        IF \E i \in 1..Len(Tags(v)) : Tags(v)[i] = f
                        THEN FieldValue(doc, f, "") ELSE ""]]

\* json.Unmarshal(bytes, &supplyItemIDsHolder)
UnmarshalHolder(doc) ==
    IF ~doc.valid
    THEN [err |-> TRUE, ids |-> <<>>]
    ELSE [err |-> FALSE, ids |-> FieldValue(doc, "supplyitemids", <<>>)]

-----------------------------------------------------------------------------
(* The ledger primitives.                                                  *)

\* stub.GetState(key): nil bytes when nothing is stored at key
GetState(l, key) == l[key]

\* stub.PutState(key, bytes): fails says the ledger reports a failure
PutState(l, key, bytes, fails) == IF fails THEN l ELSE [l EXCEPT ![key] = bytes]

-----------------------------------------------------------------------------
(* The chaincode's functions.  Each returns the ledger it leaves, the bytes *)
(* it returns and its error (NoErr for nil).                                *)

Result(l, out, list, err) == [ledger |-> l, out |-> out, list |-> list, err |-> err]

\* Init: stores the empty holder; the error of PutState is dropped
InitFn(l, fails) ==
    Result(PutState(l, ReservedKey, MarshalHolder(<<>>), fails), NilBytes, <<>>, NoErr)

retrieve_SupplyItem(l, v, supplyItemID) ==
    LET bytes == GetState(l, supplyItemID)
        u     == UnmarshalItem(v, Parse(v, bytes))
    IN  [sItem |-> u.sItem,
         err   |-> IF u.err THEN "RETRIEVE_SupplyItem: Corrupt supplyItem record" ELSE NoErr]

save_changes(l, sItem, fails) ==
    [ledger |-> PutState(l, sItem.supplyItemID, MarshalItem(sItem), fails),
     err    |-> IF fails THEN "Error storing supplyitem record" ELSE NoErr]

\* supplyitem_json: the arguments are pasted between quotes unescaped
supplyitem_json(v, args) ==
    Document(\A i \in 1..Len(CreateNames(v)) : JSONSafe(args[i]),
             CreateNames(v), [i \in 1..Len(CreateNames(v)) |-> args[i]])

\* an append that keeps the new identifier only
appendID_Overwrite(ids, id) == <<id>>

\* append(supplyItemIDsHolder.SupplyItemIDs, args[0])
appendID(ids, id) == Append(ids, id)

create_supplyItem(l, v, args, recFails, idxFails) ==
    LET supplyItemID == "\"SupplyItemID\":\"" \o args[1] \o "\", "
        sItem   == UnmarshalItem(v, supplyitem_json(v, args)).sItem
        record  == GetState(l, sItem.supplyItemID)
        saved   == save_changes(l, sItem, recFails)
        bytes   == GetState(saved.ledger, ReservedKey)
        holder  == UnmarshalHolder(Parse(v, bytes))
        ids     == appendID(holder.ids, args[1])
        stored  == PutState(saved.ledger, ReservedKey, MarshalHolder(ids), idxFails)
    IN  CASE Len(args) < Len(CreateNames(v)) -> Result(l, NilBytes, <<>>, PanicIndex)
          [] supplyItemID = ""   -> Result(l, NilBytes, <<>>, "Invalid supplyItemID provided")
          [] OTHER ->
             IF record # NilBytes
             THEN Result(l, NilBytes, <<>>, "SupplyItem already exists")
             ELSE IF saved.err # NoErr
             THEN Result(saved.ledger, NilBytes, <<>>, "Error saving changes")
             ELSE IF holder.err
             THEN Result(saved.ledger, NilBytes, <<>>, "Corrupt SupplyItemIDs_Holder record")
             ELSE IF idxFails
             THEN Result(stored, NilBytes, <<>>, "Unable to put the state")
             ELSE Result(stored, NilBytes, <<>>, NoErr)

\* update_supplyItem writing the new value to the wrong field
update_supplyItem_WrongField(l, v, sItem, new_value, fails) ==
    LET changed == IF v = "ownership"
                   THEN [sItem EXCEPT !.supplierID = new_value, !.ownerID = new_value]
                   ELSE [sItem EXCEPT !.supplierID = new_value]
        saved   == save_changes(l, changed, fails)
    IN  IF saved.err # NoErr
        THEN Result(saved.ledger, NilBytes, <<>>, "Error saving changes")
        ELSE Result(saved.ledger, NilBytes, <<>>, NoErr)

update_supplyItem(l, v, sItem, new_value, fails) ==
    LET changed == IF v = "ownership"
                   THEN [sItem EXCEPT !.operatorID = new_value, !.ownerID = new_value]
                   ELSE [sItem EXCEPT !.operatorID = new_value]
        saved   == save_changes(l, changed, fails)
    IN  IF saved.err # NoErr
        THEN Result(saved.ledger, NilBytes, <<>>, "Error saving changes")
        ELSE Result(saved.ledger, NilBytes, <<>>, NoErr)

\* Invoke, branch update_supplyItem
InvokeUpdate(l, v, args, fails) ==
    LET r == retrieve_SupplyItem(l, v, args[1])
    IN  IF Len(args) < 1
        THEN Result(l, NilBytes, <<>>, PanicIndex)
        ELSE IF r.err # NoErr
        THEN Result(l, NilBytes, <<>>, "Error retrieving supplyItem")
        ELSE IF Len(args) < 2
        THEN Result(l, NilBytes, <<>>, PanicIndex)
        ELSE update_supplyItem(l, v, r.sItem, args[2], fails)

\* read (base variant): the bytes GetState returns, whatever they are
read(l, args) ==
    IF Len(args) # 1
    THEN Result(l, NilBytes, <<>>, "Incorrect number of arguments. Expecting name of the key to query")
    ELSE Result(l, GetState(l, args[1]), <<>>, NoErr)

get_supply_item_details(sItem, caller) ==
    IF sItem.ownerID = caller
    THEN [bytes |-> MarshalItem(sItem), err |-> NoErr]
    ELSE [bytes |-> NilBytes, err |-> "Permission Denied. get_supply_item_details"]

\* a listing loop that steps over an identifier whose record it cannot
\* retrieve (differs from ListFrom in not ending the listing there)
RECURSIVE ListFrom_SkipBroken(_, _, _, _, _)
ListFrom_SkipBroken(l, v, ids, i, caller) ==
    IF i > Len(ids)
    THEN [err |-> NoErr, list |-> <<>>]
    ELSE LET r    == retrieve_SupplyItem(l, v, ids[i])
             d    == get_supply_item_details(r.sItem, caller)
             rest == ListFrom_SkipBroken(l, v, ids, i + 1, caller)
         IN  IF rest.err # NoErr
             THEN rest
             ELSE [err  |-> NoErr,
                   list |-> IF r.err = NoErr /\ d.err = NoErr
                            THEN <<d.bytes.item>> \o rest.list ELSE rest.list]

\* a listing loop that puts each revealed record in front of the result
\* instead of behind it (differs from ListFrom in the order of the result)
RECURSIVE ListFrom_Reversed(_, _, _, _, _)
ListFrom_Reversed(l, v, ids, i, caller) ==
    IF i > Len(ids)
    THEN [err |-> NoErr, list |-> <<>>]
    ELSE LET r    == retrieve_SupplyItem(l, v, ids[i])
             d    == get_supply_item_details(r.sItem, caller)
             rest == ListFrom_Reversed(l, v, ids, i + 1, caller)
         IN  IF r.err # NoErr
             THEN [err |-> "Failed to retrieve SupplyItemID", list |-> <<>>]
             ELSE IF rest.err # NoErr
             THEN rest
             ELSE [err  |-> NoErr,
                   list |-> IF d.err = NoErr THEN rest.list \o <<d.bytes.item>> ELSE rest.list]

\* the loop of get_supplyItems over ids[i..]: the elements of the JSON array,
\* or the error that ends the listing
RECURSIVE ListFrom(_, _, _, _, _)
ListFrom(l, v, ids, i, caller) ==
    IF i > Len(ids)
    THEN [err |-> NoErr, list |-> <<>>]
    ELSE LET r    == retrieve_SupplyItem(l, v, ids[i])
             d    == get_supply_item_details(r.sItem, caller)
             rest == ListFrom(l, v, ids, i + 1, caller)
         IN  IF r.err # NoErr
             THEN [err |-> "Failed to retrieve SupplyItemID", list |-> <<>>]
             ELSE IF rest.err # NoErr
             THEN rest
             ELSE [err  |-> NoErr,
                   list |-> IF d.err = NoErr THEN <<d.bytes.item>> \o rest.list ELSE rest.list]

\* a listing that empties the index once it has read it (differs from
\* get_supplyItems in writing to the ledger)
get_supplyItems_Draining(l, v, caller) ==
    LET bytes  == GetState(l, ReservedKey)
        holder == UnmarshalHolder(Parse(v, bytes))
        listed == ListFrom(l, v, holder.ids, 1, caller)
    IN  IF holder.err
        THEN Result(l, NilBytes, <<>>, "Corrupt SupplyItemIDs_Holder")
        ELSE Result(PutState(l, ReservedKey, MarshalHolder(<<>>), FALSE),
                    NilBytes, listed.list, listed.err)

\* get_supplyItems (ownership variant); list holds the elements of the
\* returned JSON array, <<>> for "[]"
get_supplyItems(l, v, caller) ==
    LET bytes  == GetState(l, ReservedKey)
        holder == UnmarshalHolder(Parse(v, bytes))
        listed == ListFrom(l, v, holder.ids, 1, caller)
    IN  IF holder.err
        THEN Result(l, NilBytes, <<>>, "Corrupt SupplyItemIDs_Holder")
        ELSE Result(l, NilBytes, listed.list, listed.err)

-----------------------------------------------------------------------------
(* The state machine: one action per entry point.  The handlers keep no    *)
(* state of their own, so an invocation is visible in the ledger only; what *)
(* a handler returns in a state is the value of its operator there.         *)

\* the two invocations that may be in flight together, and the identifier
\* each of them creates
Procs == {"p1", "p2"}

ProcId == [p \in Procs |-> IF p = "p1" THEN "S1" ELSE "S2"]

\* the argument lists offered to create_supplyItem
CreateArgs(v) ==
    IF v = "ownership"
    THEN {<<id, "sup1", "op1", own, "10.0", "20.0", d, "metal", "5", "kg", "photo.jpg">> :
            id \in IdArgs, own \in Owners, d \in Descriptions}
    ELSE {<<id, "sup1", "op1", "10.0", "20.0", d, "metal", "5", "kg", "photo.jpg">> :
            id \in IdArgs, d \in Descriptions}

\* the argument lists offered to update_supplyItem
UpdateArgs == {<<id, new_value>> : id \in IdArgs, new_value \in NewValues}

\* argument lists of another length than the handler reads: one argument
\* short, and one argument more
MiscountedCreateArgs(v) ==
    LET Plain == {a \in CreateArgs(v) :
                    /\ a[1] = "S1"
                    /\ \A i \in 1..Len(a) : JSONSafe(a[i])
                    /\ v = "ownership" => a[4] = "own1"}
    IN  {SubSeq(args, 1, Len(args) - 1) : args \in Plain}
        \cup {Append(args, "extra") : args \in Plain}

MiscountedUpdateArgs == {<<>>, <<"S1">>, <<"S1", "op2", "extra">>}

\* the argument lists create_supplyItem is invoked with.  A list whose text
\* does not parse leaves the same ledger whatever its owner argument is (the
\* record stored is the zero value), so those are offered with one owner.
OfferedCreateArgs(v) ==
    {a \in CreateArgs(v) :
        (v = "ownership" /\ \E i \in 1..Len(a) : ~JSONSafe(a[i])) => a[4] = "own1"}
    \cup MiscountedCreateArgs(v)

\* the failures the two PutState calls of create_supplyItem are offered:
\* <<record put fails, index put fails>>; the index put is not reached when
\* the record put has failed
PutFailures == {<<FALSE, FALSE>>, <<TRUE, FALSE>>, <<FALSE, TRUE>>}

\* history of the invocations: "initcreates" while they are one Init followed
\* by create_supplyItem calls that all returned nil
HistAfter(h, fn, err) ==
    CASE fn = "Init" -> IF h = "fresh" THEN "initcreates" ELSE "other"
      [] fn = "create_supplyItem" ->
            IF h = "initcreates" /\ err = NoErr THEN "initcreates" ELSE "other"
      [] OTHER -> "other"

Init ==
    /\ variant \in Variants
    /\ ledger = [k \in Keys |-> NilBytes]
    /\ created = {}
    /\ hist = "fresh"
    /\ createdSeq = <<>>
    /\ host = "serialized"
    /\ pc = [p \in Procs |-> "idle"]
    /\ argsOf = [p \in Procs |-> <<>>]
    /\ held = [p \in Procs |-> <<>>]
    /\ ret = [p \in Procs |-> NoErr]
    /\ calls = [p \in Procs |-> <<>>]

DoInit ==
    \E fails \in BOOLEAN :
        LET r == InitFn(ledger, fails)
        IN  /\ ledger' = r.ledger
            /\ hist' = HistAfter(hist, "Init", r.err)
            /\ UNCHANGED <<variant, created, createdSeq, flight>>

DoCreate ==
    \E args \in OfferedCreateArgs(variant), f \in PutFailures :
        LET r == create_supplyItem(ledger, variant, args, f[1], f[2])
        IN  /\ ledger' = r.ledger
            /\ created' = IF r.err = NoErr THEN created \cup {args[1]} ELSE created
            /\ createdSeq' = IF r.err = NoErr THEN Append(createdSeq, args[1]) ELSE createdSeq
            /\ hist' = HistAfter(hist, "create_supplyItem", r.err)
            /\ UNCHANGED <<variant, flight>>

DoUpdate ==
    \E args \in UpdateArgs \cup MiscountedUpdateArgs, fails \in BOOLEAN :
        LET r == InvokeUpdate(ledger, variant, args, fails)
        IN  /\ ledger' = r.ledger
            /\ hist' = HistAfter(hist, "update_supplyItem", r.err)
            /\ UNCHANGED <<variant, created, createdSeq, flight>>

\* Query, branch read (base variant)
DoRead ==
    /\ variant = "base"
    /\ \E key \in Keys :
        /\ ledger' = read(ledger, <<key>>).ledger
        /\ UNCHANGED <<variant, created, hist, createdSeq, flight>>

\* Query, branch get_supplyItems (ownership variant)
DoGetSupplyItems ==
    /\ variant = "ownership"
    /\ \E caller \in Callers :
        /\ ledger' = get_supplyItems(ledger, variant, caller).ledger
        /\ UNCHANGED <<variant, created, hist, createdSeq, flight>>

Next == DoInit \/ DoCreate \/ DoUpdate \/ DoRead \/ DoGetSupplyItems

Spec == Init /\ [][Next]_vars

-----------------------------------------------------------------------------
(* Two create_supplyItem invocations with different identifiers against an *)
(* initialized ledger, each taken one ledger call at a time.  A serializing *)
(* host lets an invocation make a ledger call only while the other is not   *)
(* between its first call and its return; an interleaving host lets either  *)
(* invocation make its next call at any time.                               *)

Hosts == {"serialized", "interleaved"}

MayStep(p) ==
    \/ host = "interleaved"
    \/ \A q \in Procs \ {p} : pc[q] \in {"check", "done"}

RaceInit ==
    /\ variant \in Variants
    /\ ledger = InitFn([k \in Keys |-> NilBytes], FALSE).ledger
    /\ created = {}
    /\ hist = "initcreates"
    /\ createdSeq = <<>>
    /\ host \in Hosts
    /\ pc = [p \in Procs |-> "check"]
    /\ argsOf \in [Procs -> CreateArgs(variant)]
    /\ \A p \in Procs : argsOf[p][1] = ProcId[p]
    /\ held = [p \in Procs |-> <<>>]
    /\ ret = [p \in Procs |-> NoErr]
    /\ calls = [p \in Procs |-> <<>>]

\* the invocation p returns err
Return(p, err) ==
    /\ pc' = [pc EXCEPT ![p] = "done"]
    /\ ret' = [ret EXCEPT ![p] = err]
    /\ created' = IF err = NoErr THEN created \cup {argsOf[p][1]} ELSE created
    /\ createdSeq' = IF err = NoErr THEN Append(createdSeq, argsOf[p][1]) ELSE createdSeq

\* the ledger call op on key with the given outcome, issued by invocation p
Issue(p, op, key, outcome) ==
    calls' = [calls EXCEPT ![p] = Append(@, <<op, key, outcome>>)]

\* the key create_supplyItem checks and stores its record at: sItem.SupplyItemID
CandidateKey(p) ==
    UnmarshalItem(variant, supplyitem_json(variant, argsOf[p])).sItem.supplyItemID

\* a create that goes on to store its record without the GetState of line 187
RaceCheck_Blind(p) ==
    /\ pc[p] = "check"
    /\ MayStep(p)
    /\ pc' = [pc EXCEPT ![p] = "save"]
    /\ UNCHANGED <<variant, ledger, hist, host, argsOf, held, ret, created, createdSeq, calls>>

\* record, err := stub.GetState(sItem.SupplyItemID)
RaceCheck(p) ==
    /\ pc[p] = "check"
    /\ MayStep(p)
    /\ LET sItem  == UnmarshalItem(variant, supplyitem_json(variant, argsOf[p])).sItem
           record == GetState(ledger, sItem.supplyItemID)
       IN  /\ Issue(p, "get", sItem.supplyItemID,
                    IF record = NilBytes THEN "absent" ELSE "present")
           /\ IF record # NilBytes
              THEN Return(p, "SupplyItem already exists")
              ELSE /\ pc' = [pc EXCEPT ![p] = "save"]
                   /\ UNCHANGED <<ret, created, createdSeq>>
    /\ UNCHANGED <<variant, ledger, hist, host, argsOf, held>>

\* _, err = t.save_changes(stub, sItem)
RaceSave(p) ==
    /\ pc[p] = "save"
    /\ MayStep(p)
    /\ \E fails \in BOOLEAN :
        LET sItem == UnmarshalItem(variant, supplyitem_json(variant, argsOf[p])).sItem
            saved == save_changes(ledger, sItem, fails)
        IN  /\ ledger' = saved.ledger
            /\ Issue(p, "put", sItem.supplyItemID, IF fails THEN "failed" ELSE "stored")
            /\ IF saved.err # NoErr
               THEN Return(p, "Error saving changes")
               ELSE /\ pc' = [pc EXCEPT ![p] = "getIndex"]
                    /\ UNCHANGED <<ret, created, createdSeq>>
    /\ UNCHANGED <<variant, hist, host, argsOf, held>>

\* bytes, err := stub.GetState("supplyItemIDs") and its json.Unmarshal
RaceGetIndex(p) ==
    /\ pc[p] = "getIndex"
    /\ MayStep(p)
    /\ LET holder == UnmarshalHolder(Parse(variant, GetState(ledger, ReservedKey)))
       IN  /\ Issue(p, "get", ReservedKey,
                    IF GetState(ledger, ReservedKey) = NilBytes THEN "absent" ELSE "present")
           /\ IF holder.err
              THEN /\ Return(p, "Corrupt SupplyItemIDs_Holder record")
                   /\ UNCHANGED held
              ELSE /\ held' = [held EXCEPT ![p] = holder.ids]
                   /\ pc' = [pc EXCEPT ![p] = "putIndex"]
                   /\ UNCHANGED <<ret, created, createdSeq>>
    /\ UNCHANGED <<variant, ledger, hist, host, argsOf>>

\* the append of args[0] and err = stub.PutState("supplyItemIDs", bytes)
RacePutIndex(p) ==
    /\ pc[p] = "putIndex"
    /\ MayStep(p)
    /\ \E fails \in BOOLEAN :
        LET ids == appendID(held[p], argsOf[p][1])
        IN  /\ ledger' = PutState(ledger, ReservedKey, MarshalHolder(ids), fails)
            /\ Issue(p, "put", ReservedKey, IF fails THEN "failed" ELSE "stored")
            /\ Return(p, IF fails THEN "Unable to put the state" ELSE NoErr)
    /\ UNCHANGED <<variant, hist, host, argsOf, held>>

RaceNext ==
    \E p \in Procs : RaceCheck(p) \/ RaceSave(p) \/ RaceGetIndex(p) \/ RacePutIndex(p)

SpecRace == RaceInit /\ [][RaceNext]_vars

-----------------------------------------------------------------------------
(* Vocabulary of the properties.                                           *)

Range(seq) == {seq[i] : i \in 1..Len(seq)}

IsSuffix(s, t) ==
    Len(s) <= Len(t) /\ \A i \in 1..Len(s) : s[i] = t[Len(t) - Len(s) + i]

IsPrefix(s, t) == Len(s) <= Len(t) /\ \A i \in 1..Len(s) : s[i] = t[i]

\* the identifier sequence the chaincode reads from the reserved key of l
\* (empty when nothing decodable as a holder is stored there)
IndexIds(l) == UnmarshalHolder(Parse(variant, GetState(l, ReservedKey))).ids

\* the keys other than the reserved one at which l holds a SupplyItem record
RecordKeys(l) == {k \in Keys \ {ReservedKey} : l[k].kind = "item"}

Flags == BOOLEAN

-----------------------------------------------------------------------------
(* Properties.                                                             *)

\* C1 (as claimed): once a create_supplyItem with an identifier has returned
\* nil, every later create_supplyItem with that identifier returns the
\* duplicate error "SupplyItem already exists" and leaves the ledger as it was.
C1_UniquenessAsClaimed ==
    \A args \in CreateArgs(variant), recFails \in Flags, idxFails \in Flags :
        args[1] \in created =>
            LET r == create_supplyItem(ledger, variant, args, recFails, idxFails)
            IN  r.err = "SupplyItem already exists" /\ r.ledger = ledger

\* C2 (as claimed): after Init followed by successful create_supplyItem calls
\* only, the identifiers in the index are exactly the keys holding a record.
C2_IndexConsistencyAsClaimed ==
    hist = "initcreates" => Range(IndexIds(ledger)) = RecordKeys(ledger)

\* C3 (as claimed): for every caller A and every indexed record, owned by B,
\* the array get_supplyItems(A) returns contains the record iff A = B.
C3_OwnershipIsolationAsClaimed ==
    variant = "ownership" =>
        \A A \in Callers, id \in Range(IndexIds(ledger)) :
            ledger[id].kind = "item" =>
                LET r == get_supplyItems(ledger, variant, A)
                IN  (ledger[id].item \in Range(r.list)) <=> (A = ledger[id].item.ownerID)

\* the record update_supplyItem is documented to leave at key id after
\* update_supplyItem(id, v) on the record old: operatorID is v, and with
\* ownership tracking ownerID is v as well
Updated(old, v) ==
    IF variant = "ownership"
    THEN [old EXCEPT !.operatorID = v, !.ownerID = v]
    ELSE [old EXCEPT !.operatorID = v]

\* C4 (as claimed): after a successful update_supplyItem(id, v) on an existing
\* record, the record at id has operatorID = v and every other field, ownerID
\* included, is as before.
C4_UpdateFrameAsClaimed ==
    \A args \in UpdateArgs, fails \in Flags :
        LET r == InvokeUpdate(ledger, variant, args, fails)
        IN  (ledger[args[1]].kind = "item" /\ r.err = NoErr) =>
                r.ledger[args[1]] =
                    MarshalItem([ledger[args[1]].item EXCEPT !.operatorID = args[2]])

\* C4 (amended): after a successful update_supplyItem(id, v) on an existing
\* record, the record at id has operatorID = v and, in the ownership-tracking
\* variant, ownerID = v; every other field is as before.
C4_UpdateSetsOperatorAndOwner ==
    \A args \in UpdateArgs, fails \in Flags :
        LET r == InvokeUpdate(ledger, variant, args, fails)
        IN  (ledger[args[1]].kind = "item" /\ r.err = NoErr) =>
                r.ledger[args[1]] = MarshalItem(Updated(ledger[args[1]].item, args[2]))

\* C4 witness: a record created with operator "op1" and an owner has been
\* updated: operator and owner are the new value, the rest is as created.
C4_Witness ==
    /\ variant = "ownership"
    /\ \E id \in PlainIds :
        /\ ledger[id].kind = "item"
        /\ ledger[id].item.operatorID = "op2"
        /\ ledger[id].item.ownerID = "op2"
        /\ ledger[id].item.description = "desc"
        /\ ledger[id].item.supplyItemID = id

\* C5 (as claimed): in every reachable state every key other than the reserved
\* one that holds a record is in the index, and every identifier in the index
\* has a record stored at its key.
C5_BidirectionalConsistencyAsClaimed ==
    /\ \A k \in RecordKeys(ledger) : k \in Range(IndexIds(ledger))
    /\ \A id \in Range(IndexIds(ledger)) : id \in RecordKeys(ledger)

\* C6 (as claimed): a create_supplyItem that returns an error leaves the
\* ledger as it was.
C6_NoPartialCreateAsClaimed ==
    \A args \in CreateArgs(variant), recFails \in Flags, idxFails \in Flags :
        LET r == create_supplyItem(ledger, variant, args, recFails, idxFails)
        IN  r.err # NoErr => r.ledger = ledger

\* C7 (as claimed): across every step, Init included, the identifier sequence
\* at the reserved key keeps its former value as a prefix and grows by at most
\* one identifier.
C7_IndexAppendOnlyAsClaimed ==
    [][/\ IsPrefix(IndexIds(ledger), IndexIds(ledger'))
       /\ Len(IndexIds(ledger')) <= Len(IndexIds(ledger)) + 1]_vars

\* C8 (as claimed): no stored record has an empty supplyItemID, and
\* create_supplyItem with "" as identifier returns "Invalid supplyItemID
\* provided" and writes nothing.
C8_EmptyIdRejectedAsClaimed ==
    /\ \A k \in Keys : ledger[k].kind = "item" => ledger[k].item.supplyItemID # ""
    /\ \A args \in CreateArgs(variant), recFails \in Flags, idxFails \in Flags :
        args[1] = "" =>
            LET r == create_supplyItem(ledger, variant, args, recFails, idxFails)
            IN  r.err = "Invalid supplyItemID provided" /\ r.ledger = ledger

\* C9 (as claimed): no record is ever stored at the reserved key; what is
\* stored there is nothing or an index of identifiers of created records; and
\* create_supplyItem or update_supplyItem with the reserved key as identifier
\* is rejected or leaves the entry at the reserved key as it was.
C9_ReservedKeyNeverCollidesAsClaimed ==
    /\ ledger[ReservedKey].kind # "item"
    /\ ledger[ReservedKey].kind = "index" => Range(ledger[ReservedKey].ids) \subseteq created
    /\ \A args \in CreateArgs(variant), recFails \in Flags, idxFails \in Flags :
        args[1] = ReservedKey =>
            LET r == create_supplyItem(ledger, variant, args, recFails, idxFails)
            IN  r.err # NoErr \/ r.ledger[ReservedKey] = ledger[ReservedKey]
    /\ \A args \in UpdateArgs, fails \in Flags :
        args[1] = ReservedKey =>
            LET r == InvokeUpdate(ledger, variant, args, fails)
            IN  r.err # NoErr \/ r.ledger[ReservedKey] = ledger[ReservedKey]

\* C10 (as claimed): read of a key at which nothing is stored returns an
\* error; read returns bytes and a nil error only when an entry exists at the
\* key, and then the bytes are the stored value.
C10_ReadNotFoundAsClaimed ==
    variant = "base" =>
        \A key \in Keys :
            LET r == read(ledger, <<key>>)
            IN  /\ GetState(ledger, key) = NilBytes => r.err # NoErr
                /\ r.err = NoErr => (GetState(ledger, key) # NilBytes /\ r.out = GetState(ledger, key))

\* C11 (as claimed): create_supplyItem with another number of arguments than
\* the variant reads, and update_supplyItem with fewer than two, return an
\* error and leave the ledger as it was: they neither panic nor accept the
\* call.
C11_ArityRejectedAsClaimed ==
    /\ \A args \in MiscountedCreateArgs(variant), recFails \in Flags, idxFails \in Flags :
        LET r == create_supplyItem(ledger, variant, args, recFails, idxFails)
        IN  r.err \notin {NoErr, PanicIndex} /\ r.ledger = ledger
    /\ \A args \in {a \in MiscountedUpdateArgs : Len(a) < 2}, fails \in Flags :
        LET r == InvokeUpdate(ledger, variant, args, fails)
        IN  r.err \notin {NoErr, PanicIndex} /\ r.ledger = ledger

\* the records of l at the identifiers of the index that caller owns, in
\* index order
OwnedInIndexOrder(l, caller) ==
    LET Mine(id) == l[id].kind = "item" /\ l[id].item.ownerID = caller
        ids      == SelectSeq(IndexIds(l), Mine)
    IN  [i \in 1..Len(ids) |-> l[ids[i]].item]

\* C12: the index lists identifiers in the order their creates returned nil
\* (it is the tail of the sequence of successful creates since the last
\* Init), and a listing that returns records returns the caller's records
\* of the index in index order.
C12_OrderPreserved ==
    /\ IsSuffix(IndexIds(ledger), createdSeq)
    /\ variant = "ownership" =>
        \A caller \in Callers :
            LET r == get_supplyItems(ledger, variant, caller)
            IN  r.err = NoErr => r.list = OwnedInIndexOrder(ledger, caller)

\* C12 witness: a listing returns two records with different identifiers.
C12_Witness ==
    /\ variant = "ownership"
    /\ \E caller \in Callers :
        LET r == get_supplyItems(ledger, variant, caller)
        IN  /\ r.err = NoErr
            /\ Len(r.list) >= 2
            /\ r.list[1].supplyItemID # r.list[2].supplyItemID

C14_EmptyListingAsClaimed ==
    (variant = "ownership" /\ ledger[ReservedKey].kind = "index") =>
        \A caller \in Callers :
            OwnedInIndexOrder(ledger, caller) = <<>> =>
                LET r == get_supplyItems(ledger, variant, caller)
                IN  r.err = NoErr /\ r.list = <<>>

\* the bytes at the reserved key of l do not decode as a holder
IndexUndecodable(l) == UnmarshalHolder(Parse(variant, GetState(l, ReservedKey))).err

\* the identifiers of the index of l whose bytes do not decode as a record
BrokenEntries(l) ==
    {id \in Range(IndexIds(l)) : UnmarshalItem(variant, Parse(variant, GetState(l, id))).err}

\* C15: when the bytes at the reserved key are absent or do not decode, or
\* an identifier of the index has no decodable bytes at its key,
\* get_supplyItems returns an error and no record, whoever the caller is.
C15_ListingFailsFast ==
    (variant = "ownership" /\ (IndexUndecodable(ledger) \/ BrokenEntries(ledger) # {})) =>
        \A caller \in Callers :
            LET r == get_supplyItems(ledger, variant, caller)
            IN  r.err # NoErr /\ r.list = <<>>

\* C15 witness: the index lists a record of own1 and, behind it, an
\* identifier with nothing at its key, and the listing of own1 fails.
C15_Witness ==
    /\ variant = "ownership"
    /\ ~IndexUndecodable(ledger)
    /\ BrokenEntries(ledger) # {}
    /\ \E i \in 1..Len(IndexIds(ledger)) :
        /\ ledger[IndexIds(ledger)[i]].kind = "item"
        /\ ledger[IndexIds(ledger)[i]].item.ownerID = "own1"
        /\ \E j \in (i + 1)..Len(IndexIds(ledger)) : IndexIds(ledger)[j] \in BrokenEntries(ledger)
    /\ get_supplyItems(ledger, variant, "own1").err # NoErr

\* C16 (as claimed): update_supplyItem on an identifier at which no record
\* is stored returns an error and leaves the ledger as it was, and no
\* update_supplyItem stores a record at a key that held nothing before.
C16_UpdateNotFoundAsClaimed ==
    \A args \in UpdateArgs, fails \in Flags :
        LET r == InvokeUpdate(ledger, variant, args, fails)
        IN  /\ ledger[args[1]].kind # "item" => (r.err # NoErr /\ r.ledger = ledger)
            /\ \A k \in Keys : ledger[k].kind = "nil" => r.ledger[k].kind # "item"

\* C17 (as claimed): Init returns an error when its PutState of the reserved
\* key fails, and returns nil only if the empty index is stored at the
\* reserved key afterwards.
C17_InitReportsWriteFailureAsClaimed ==
    \A fails \in Flags :
        LET r == InitFn(ledger, fails)
        IN  /\ fails => r.err # NoErr
            /\ r.err = NoErr => r.ledger[ReservedKey] = MarshalHolder(<<>>)

\* both invocations in flight have returned nil and both records are
\* stored, but the index holds only one of the two identifiers
LostUpdate ==
    /\ \A p \in Procs : pc[p] = "done" /\ ret[p] = NoErr
    /\ \A p \in Procs : ledger[ProcId[p]].kind = "item"
    /\ Cardinality(Range(IndexIds(ledger)) \cap {ProcId[p] : p \in Procs}) = 1

\* C18: when the host serializes the two invocations, no state is reached
\* in which both creates returned nil, both records are stored and the index
\* holds only one of the two identifiers.  (C18_Witness is the other half:
\* under an interleaving host such a state is reached.)
C18_SerializedNoLostUpdate == host = "serialized" => ~LostUpdate

\* C18 witness: the lost update, reached under the interleaving host.
C18_Witness == host = "interleaved" /\ LostUpdate

\* the record whose attributes are the positional arguments of a create
RecordOfArgs(v, args) ==
    IF v = "ownership"
    THEN SupplyItem(args[1], args[2], args[3], args[4], args[5], args[6], args[7],
                    args[8], args[9], args[10], args[11])
    ELSE SupplyItem(args[1], args[2], args[3], "", args[4], args[5], args[6],
                    args[7], args[8], args[9], args[10])

\* C19 (as claimed): a create_supplyItem that returns nil has stored at key
\* args[0] a record in which every attribute is the argument passed in its
\* position.
C19_RecordHoldsArgumentsAsClaimed ==
    \A args \in CreateArgs(variant), recFails \in Flags, idxFails \in Flags :
        LET r == create_supplyItem(ledger, variant, args, recFails, idxFails)
        IN  r.err = NoErr => r.ledger[args[1]] = MarshalItem(RecordOfArgs(variant, args))

\* C20 (as claimed): the identifier sequence stored at the reserved key
\* never holds the same identifier twice.
C20_IndexHasNoDuplicatesAsClaimed ==
    \A i, j \in 1..Len(IndexIds(ledger)) :
        IndexIds(ledger)[i] = IndexIds(ledger)[j] => i = j

\* the positions in the call history c of the puts
Puts(c) == {i \in 1..Len(c) : c[i][1] = "put"}

C22_KeyIdentifierAgreementAsClaimed ==
    /\ \A k \in Keys : ledger[k].kind = "item" => ledger[k].item.supplyItemID = k
    /\ \A args \in CreateArgs(variant), recFails \in Flags, idxFails \in Flags :
        LET r        == create_supplyItem(ledger, variant, args, recFails, idxFails)
            ids      == IndexIds(r.ledger)
            appended == ids[Len(ids)]
        IN  r.err = NoErr =>
                /\ ledger[appended] = NilBytes
                /\ r.ledger[appended].kind = "item"
                /\ r.ledger[appended].item.supplyItemID = appended

\* C23 (as claimed): an update_supplyItem(id, v) that returns nil leaves
\* every key other than id as it was, the index at the reserved key
\* included, and the set of keys holding records is the same after it.
C23_UpdateWritesOneKeyAsClaimed ==
    \A args \in UpdateArgs, fails \in Flags :
        LET r == InvokeUpdate(ledger, variant, args, fails)
        IN  r.err = NoErr =>
                /\ \A k \in Keys \ {args[1]} : r.ledger[k] = ledger[k]
                /\ ledger[ReservedKey].kind = "index" =>
                        r.ledger[ReservedKey] = ledger[ReservedKey]
                /\ {k \in Keys : r.ledger[k].kind = "item"} = {k \in Keys : ledger[k].kind = "item"}

====
